---- MODULE Spec2Model ----
(***************************************************************************)
(* Model of backend/server.py, the Supabase-backed crypto trading journal. *)
(*                                                                         *)
(* Python floats are modelled as exact rationals <<n, d>> (d > 0, lowest   *)
(* terms); Optional[T] values as None == <<>> or Some(v) == <<v>>.          *)
(* The table 'crypto_trades' is the set of rows `store`.                    *)
(***************************************************************************)
EXTENDS Integers, Sequences, FiniteSets, TLC

\* ------------------------------------------------------------------ bounds

\* The number of requests served in one run of the service.
MaxRequests == 2

\* The pages and page sizes a listing is asked for.
MaxPage == 3
MaxLimit == 2

\* ------------------------------------------------------ Optional and floats

None == <<>>
Some(v) == <<v>>
Val(o) == o[1]

Abs(x) == IF x < 0 THEN -x ELSE x

RECURSIVE GCD(_, _)
GCD(a, b) == IF b = 0 THEN a ELSE GCD(b, a % b)

\* The rational n/d in lowest terms with a positive denominator (d # 0).
Rat(n, d) ==
    LET g == GCD(Abs(n), Abs(d))
        s == IF d < 0 THEN -1 ELSE 1
    IN  <<(s * n) \div g, (s * d) \div g>>

Zero == <<0, 1>>
FromInt(i) == <<i, 1>>
RatAdd(x, y) == Rat(x[1] * y[2] + y[1] * x[2], x[2] * y[2])
RatMul(x, y) == Rat(x[1] * y[1], x[2] * y[2])
RatDiv(x, y) == Rat(x[1] * y[2], x[2] * y[1])
RatLess(x, y) == x[1] * y[2] < y[1] * x[2]

\* Python's round(x, 2) on the exact value: nearest multiple of 1/100, ties to even.
Round2(x) ==
    LET n == x[1] * 100
        d == x[2]
        f == n \div d
        r == n % d
        k == IF 2 * r < d THEN f
             ELSE IF 2 * r > d THEN f + 1
             ELSE IF f % 2 = 0 THEN f ELSE f + 1
    IN  Rat(k, 100)

\* ------------------------------------------------------------ enumerations

LONG == "Long"
SHORT == "Short"
TradeType == {LONG, SHORT}

\* ------------------------------------------------------- helper functions

\* usd_amount / entry_price if entry_price > 0 else 0
calculate_quantity(usd_amount, entry_price) ==
    IF entry_price > 0 THEN Rat(usd_amount, entry_price) ELSE Zero

\* Python truthiness of the four arguments of calculate_pnl: None, 0, 0.0 and ""
\* are falsy.
TruthyStr(o) == o # None /\ Val(o) # ""
TruthyNum(o) == o # None /\ Val(o) # 0
TruthyRat(o) == o # None /\ Val(o)[1] # 0

\* Arguments are Optional values; the result is Optional.
calculate_pnl(trade_type, entry_price, exit_price, quantity) ==
    IF ~(TruthyStr(trade_type) /\ TruthyNum(entry_price)
         /\ TruthyNum(exit_price) /\ TruthyRat(quantity))
    THEN None
    ELSE IF Val(trade_type) = LONG
         THEN Some(RatMul(FromInt(Val(exit_price) - Val(entry_price)), Val(quantity)))
         ELSE Some(RatMul(FromInt(Val(entry_price) - Val(exit_price)), Val(quantity)))

\* ------------------------------------------------------------------ models

\* The columns of a CryptoTrade row kept in the model.  trade_date, stop_loss,
\* take_profit and image_data are carried exactly like notes and are left out.
CryptoTradeFields ==
    {"id", "pair", "entry_price", "exit_price", "usd_amount", "quantity", "pnl",
     "strategy", "trade_type", "notes", "created_at", "updated_at"}

\* The fields of CryptoTradeCreate, i.e. the keys of trade.dict().
CryptoTradeCreateFields ==
    {"pair", "entry_price", "exit_price", "usd_amount", "pnl", "strategy",
     "trade_type", "notes"}

\* The fields of CryptoTradeUpdate, every one Optional with default None.
CryptoTradeUpdateFields ==
    {"pair", "entry_price", "exit_price", "usd_amount", "pnl", "strategy",
     "trade_type", "notes"}

\* Columns that are Optional in CryptoTrade: their cell is None or Some(v).
OptionalColumns == {"exit_price", "pnl", "notes"}

\* ------------------------------------------------------------ input domains

Ids == {"t1", "t2"}

EmptyPayload == [k \in CryptoTradeUpdateFields |-> None]

OneField(k, v) == [EmptyPayload EXCEPT ![k] = Some(v)]

\* Values a client sends in an update, per field.
UpdateValues ==
    [pair |-> {},
     entry_price |-> {0, 2},
     exit_price |-> {1, 2},
     usd_amount |-> {-2, 0},
     pnl |-> {FromInt(1)},
     strategy |-> {},
     trade_type |-> {LONG, SHORT},
     notes |-> {"edited"}]

\* Sparse update payloads: the empty one, every single field, and combinations:
\* the test's (exit_price, usd_amount, notes), both sizing inputs, and pnl sent
\* with a critical field.
UpdatePayloads ==
    {EmptyPayload}
    \cup {OneField(k, v) : k \in {"entry_price"}, v \in UpdateValues.entry_price}
    \cup {OneField(k, v) : k \in {"exit_price"}, v \in UpdateValues.exit_price}
    \cup {OneField(k, v) : k \in {"usd_amount"}, v \in UpdateValues.usd_amount}
    \cup {OneField(k, v) : k \in {"pnl"}, v \in UpdateValues.pnl}
    \cup {OneField(k, v) : k \in {"trade_type"}, v \in UpdateValues.trade_type}
    \cup {OneField(k, v) : k \in {"notes"}, v \in UpdateValues.notes}
    \cup {[EmptyPayload EXCEPT !.exit_price = Some(2), !.usd_amount = Some(-2),
                               !.notes = Some("edited")],
          [EmptyPayload EXCEPT !.entry_price = Some(2), !.usd_amount = Some(-2)],
          [EmptyPayload EXCEPT !.exit_price = Some(2), !.pnl = Some(FromInt(1))]}

\* Well-formed create payloads: required fields present, optional ones either way.
CreatePayloads ==
    [pair : {"BTC/USDT"},
     entry_price : {1},
     exit_price : {None, Some(2)},
     usd_amount : {2},
     pnl : {None},
     strategy : {"DCA"},
     trade_type : TradeType,
     notes : {None}]

\* -------------------------------------------------------------------- state

VARIABLES
    store,   \* the rows of table 'crypto_trades'
    clock,   \* the last reading of datetime.utcnow()
    served,  \* the number of requests served
    resp,    \* the last request and the response it got
    inflight \* the update requests between their steps, per request

vars == <<store, clock, served, resp, inflight>>

\* No request is between two steps.
NoInflight == <<>>

Matching(rows, trade_id) == {r \in rows : r.id = trade_id}
TheRow(rows, trade_id) == CHOOSE r \in Matching(rows, trade_id) : TRUE

\* How the storage client behaves during one request:
\*   "ok"      every call answers; .single() on zero rows answers without data
\*   "norows"  every call answers, but .single() on zero rows raises the
\*             "PostgrestError ... JSON object requested, but no rows returned" error
\*   "fault"   the call raises some other error (the store fails)
StoreEnvs == {"ok", "norows", "fault"}

Response(op, trade_id, payload, status, body, env, prior) ==
    [op |-> op, id |-> trade_id, payload |-> payload, status |-> status,
     body |-> body, env |-> env, prior |-> prior]

\* ----------------------------------------------------------- create_trade

\* The keys of trade.dict() given again as explicit keywords in
\* CryptoTrade(**trade.dict(), quantity=quantity, pnl=pnl): a TypeError.
DuplicateKeywords(trade) == DOMAIN trade \cap {"quantity", "pnl"}

\* The CryptoTrade built from the create payload, with its field defaults.
NewTrade(trade_id, trade, quantity, pnl, now) ==
    [id |-> trade_id,
     pair |-> trade.pair,
     entry_price |-> trade.entry_price,
     exit_price |-> trade.exit_price,
     usd_amount |-> trade.usd_amount,
     quantity |-> quantity,
     pnl |-> pnl,
     strategy |-> trade.strategy,
     trade_type |-> trade.trade_type,
     notes |-> trade.notes,
     created_at |-> now,
     updated_at |-> now]

create_trade(trade, env) ==
    LET quantity == calculate_quantity(trade.usd_amount, trade.entry_price)
        pnl == calculate_pnl(Some(trade.trade_type), Some(trade.entry_price),
                             trade.exit_price, Some(quantity))
        fresh == Ids \ {r.id : r \in store}
    IN  IF DuplicateKeywords(trade) # {}
        THEN \* TypeError, raised outside the try block: an unhandled exception
             /\ resp' = Response("create", "", trade, 500, None, env, None)
             /\ UNCHANGED <<store, clock>>
        ELSE IF env = "fault"
        THEN /\ resp' = Response("create", "", trade, 500, None, env, None)
             /\ clock' = clock + 1
             /\ UNCHANGED store
        ELSE \E trade_id \in fresh :
                LET trade_obj == NewTrade(trade_id, trade, quantity, pnl, clock + 1)
                IN  /\ store' = store \cup {trade_obj}
                    /\ clock' = clock + 1
                    /\ resp' = Response("create", trade_id, trade, 200,
                                        Some(trade_obj), env, None)

\* -------------------------------------------------------------- get_trade

get_trade(trade_id, env) ==
    LET rows == Matching(store, trade_id)
        status == IF env = "fault" THEN 500
                  ELSE IF rows # {} THEN 200
                  \* no data: HTTPException(404) is raised inside the try block and
                  \* caught by `except Exception`; its text is not a "no rows" one
                  ELSE IF env = "ok" THEN 500
                  \* the "no rows returned" error is answered with 404
                  ELSE 404
        body == IF status = 200 THEN Some(TheRow(store, trade_id)) ELSE None
    IN  /\ resp' = Response("get", trade_id, None, status, body, env, None)
        /\ UNCHANGED <<store, clock>>

\* ----------------------------------------------------------- update_trade

\* {k: v for k, v in trade_update.dict().items() if v is not None}, each value in
\* the form its column holds (Optional columns hold Some(v)).
UpdateData(trade_update) ==
    [k \in {f \in DOMAIN trade_update : trade_update[f] # None} |->
        IF k \in OptionalColumns THEN trade_update[k] ELSE Val(trade_update[k])]

\* update_data["updated_at"] = datetime.utcnow().isoformat()
WithKey(d, key, v) == [k \in DOMAIN d \cup {key} |-> IF k = key THEN v ELSE d[k]]

\* update_data.get(key, default)
Get(d, key, default) == IF key \in DOMAIN d THEN d[key] ELSE default

CriticalFields == {"usd_amount", "entry_price", "exit_price", "trade_type"}

\* Variant: the quantity is calculated from the stored entry_price, not the
\* payload's.
Recalculated_StaleEntry(update_data, existing_trade) ==
    LET new_usd == Get(update_data, "usd_amount", existing_trade.usd_amount)
        new_entry == Get(update_data, "entry_price", existing_trade.entry_price)
        new_exit == Get(update_data, "exit_price", existing_trade.exit_price)
        new_type == Get(update_data, "trade_type", existing_trade.trade_type)
        new_quantity == calculate_quantity(new_usd, existing_trade.entry_price)
    IN  WithKey(WithKey(update_data, "quantity", new_quantity), "pnl",
                calculate_pnl(Some(new_type), Some(new_entry), new_exit,
                              Some(new_quantity)))

\* Variant: pnl is calculated with the stored quantity, not the new one.
Recalculated_OldQuantity(update_data, existing_trade) ==
    LET new_usd == Get(update_data, "usd_amount", existing_trade.usd_amount)
        new_entry == Get(update_data, "entry_price", existing_trade.entry_price)
        new_exit == Get(update_data, "exit_price", existing_trade.exit_price)
        new_type == Get(update_data, "trade_type", existing_trade.trade_type)
        new_quantity == calculate_quantity(new_usd, new_entry)
    IN  WithKey(WithKey(update_data, "quantity", new_quantity), "pnl",
                calculate_pnl(Some(new_type), Some(new_entry), new_exit,
                              Some(existing_trade.quantity)))

\* The derived columns added to update_data from the fetched row.
Recalculated(update_data, existing_trade) ==
    LET new_usd == Get(update_data, "usd_amount", existing_trade.usd_amount)
        new_entry == Get(update_data, "entry_price", existing_trade.entry_price)
        new_exit == Get(update_data, "exit_price", existing_trade.exit_price)
        new_type == Get(update_data, "trade_type", existing_trade.trade_type)
        new_quantity == calculate_quantity(new_usd, new_entry)
    IN  WithKey(WithKey(update_data, "quantity", new_quantity), "pnl",
                calculate_pnl(Some(new_type), Some(new_entry), new_exit,
                              Some(new_quantity)))

\* Variant: the write replaces the row, so Optional columns the payload leaves
\* out become null.
Updated_Replace(row, update_data) ==
    [k \in DOMAIN row |->
        IF k \in DOMAIN update_data THEN update_data[k]
        ELSE IF k \in OptionalColumns \ {"pnl"} THEN None ELSE row[k]]

\* supabase ... .update(update_data).eq('id', trade_id): the row after the write.
Updated(row, update_data) ==
    [k \in DOMAIN row |-> IF k \in DOMAIN update_data THEN update_data[k] ELSE row[k]]

\* update_data as first built: the payload's non-null fields plus updated_at.
FirstUpdateData(trade_update, now) ==
    WithKey(UpdateData(trade_update), "updated_at", now)

\* The preceding response's body when that request was this same update and
\* succeeded (bookkeeping for comparing two applications in a row).
PriorOf(trade_id, trade_update) ==
    IF resp.op = "update" /\ resp.status = 200 /\ resp.id = trade_id
       /\ resp.payload = trade_update
    THEN resp.body ELSE None

update_trade(trade_id, trade_update, env) ==
    LET now == clock + 1
        update_data == FirstUpdateData(trade_update, now)
        rows == Matching(store, trade_id)
        critical == DOMAIN update_data \cap CriticalFields # {}
        prior == PriorOf(trade_id, trade_update)
        Reply(status, body) ==
            Response("update", trade_id, trade_update, status, body, env, prior)
    IN  /\ clock' = now
        /\ IF DOMAIN update_data = {}
           THEN /\ resp' = Reply(400, None)
                /\ UNCHANGED store
           ELSE IF critical /\ env = "fault"
           THEN \* the fetch raises outside the try block
                /\ resp' = Reply(500, None)
                /\ UNCHANGED store
           ELSE IF critical /\ rows = {}
           THEN \* .single() on no row: no data gives 404, a raise is unhandled
                /\ resp' = Reply(IF env = "ok" THEN 404 ELSE 500, None)
                /\ UNCHANGED store
           ELSE IF env = "fault"
           THEN /\ resp' = Reply(500, None)
                /\ UNCHANGED store
           ELSE IF rows = {}
           THEN \* HTTPException(404) raised inside the try block, caught by
                \* `except Exception` and turned into 500
                /\ resp' = Reply(500, None)
                /\ UNCHANGED store
           ELSE LET final == IF critical
                             THEN Recalculated(update_data, TheRow(store, trade_id))
                             ELSE update_data
                    written == {Updated(r, final) : r \in rows}
                IN  /\ store' = (store \ rows) \cup written
                    /\ resp' = Reply(200, Some(CHOOSE r \in written : TRUE))

\* ----------------------------------------------------------- delete_trade

\* The message of the answer: response.data holds the deleted rows.
DeleteMessage(data) ==
    IF data # {} THEN "Trade deleted successfully"
    ELSE "Trade deleted successfully or was not found"

\* Variant: the trade is looked up first and a missing one is answered 404.
delete_trade_Checked(trade_id, env) ==
    IF env = "fault" \/ Matching(store, trade_id) = {}
    THEN /\ resp' = Response("delete", trade_id, None,
                             IF env = "fault" THEN 500 ELSE 404, None, env, None)
         /\ UNCHANGED <<store, clock>>
    ELSE /\ store' = store \ Matching(store, trade_id)
         /\ resp' = Response("delete", trade_id, None, 200,
                             Some(DeleteMessage(Matching(store, trade_id))),
                             env, None)
         /\ UNCHANGED clock

delete_trade(trade_id, env) ==
    IF env = "fault"
    THEN /\ resp' = Response("delete", trade_id, None, 500, None, env, None)
         /\ UNCHANGED <<store, clock>>
    ELSE /\ store' = store \ Matching(store, trade_id)
         /\ resp' = Response("delete", trade_id, None, 200,
                             Some(DeleteMessage(Matching(store, trade_id))),
                             env, None)
         /\ UNCHANGED clock

\* -------------------------------------------------------- get_trade_stats

\* Sum of f over a finite set of rows (DataFrame column .sum()).
RECURSIVE SumOver(_, _)
SumOver(rows, column) ==
    IF rows = {} THEN Zero
    ELSE LET r == CHOOSE x \in rows : TRUE
         IN  RatAdd(IF column = "pnl" THEN Val(r.pnl) ELSE FromInt(r.usd_amount),
                    SumOver(rows \ {r}, column))

\* .select('pnl, usd_amount').not_.is_('pnl', 'null')
WithPnl(rows) == {r \in rows : r.pnl # None}

ZeroSummary ==
    [total_trades |-> 0, total_pnl |-> Zero, total_invested |-> Zero,
     winning_trades |-> 0, losing_trades |-> 0, win_rate |-> Zero,
     avg_pnl |-> Zero, roi |-> Zero]

\* Variant: the ratio is not scaled to a percentage.
WinRate_Fraction(winning_trades, total_trades) ==
    IF total_trades > 0 THEN Rat(winning_trades, total_trades) ELSE Zero

\* win_rate before rounding
WinRate(winning_trades, total_trades) ==
    IF total_trades > 0
    THEN RatMul(Rat(winning_trades, total_trades), FromInt(100))
    ELSE Zero

\* roi before rounding
Roi(total_pnl, total_invested) ==
    IF RatLess(Zero, total_invested)
    THEN RatMul(RatDiv(total_pnl, total_invested), FromInt(100))
    ELSE Zero

Summary(rows) ==
    LET df == WithPnl(rows)
        total_trades == Cardinality(df)
        total_pnl == SumOver(df, "pnl")
        total_invested == SumOver(df, "usd_amount")
        winning_trades == Cardinality({r \in df : RatLess(Zero, Val(r.pnl))})
        losing_trades == Cardinality({r \in df : RatLess(Val(r.pnl), Zero)})
        win_rate == WinRate(winning_trades, total_trades)
        avg_pnl == RatDiv(total_pnl, FromInt(total_trades))
        roi == Roi(total_pnl, total_invested)
    IN  IF df = {} THEN ZeroSummary
        ELSE [total_trades |-> total_trades,
              total_pnl |-> Round2(total_pnl),
              total_invested |-> Round2(total_invested),
              winning_trades |-> winning_trades,
              losing_trades |-> losing_trades,
              win_rate |-> Round2(win_rate),
              avg_pnl |-> Round2(avg_pnl),
              roi |-> Round2(roi)]

get_trade_stats(env) ==
    /\ resp' = IF env = "fault"
               THEN Response("stats", "", None, 500, None, env, None)
               ELSE Response("stats", "", None, 200, Some(Summary(store)), env, None)
    /\ UNCHANGED <<store, clock>>

\* -------------------------------------------------------------- get_trades

UpperCase == "ABCDEFGHIJKLMNOPQRSTUVWXYZ"
LowerCase == "abcdefghijklmnopqrstuvwxyz"

LowerChar(c) ==
    IF \E i \in 1..Len(UpperCase) : SubSeq(UpperCase, i, i) = c
    THEN LET i == CHOOSE j \in 1..Len(UpperCase) : SubSeq(UpperCase, j, j) = c
         IN  SubSeq(LowerCase, i, i)
    ELSE c

RECURSIVE ToLower(_)
ToLower(str) ==
    IF Len(str) = 0 THEN str
    ELSE LowerChar(SubSeq(str, 1, 1)) \o ToLower(SubSeq(str, 2, Len(str)))

\* column ILIKE '%text%': text occurs in the value, letter case ignored
ilike(value, text) ==
    LET v == ToLower(value)
        t == ToLower(text)
    IN  \E i \in 1..(Len(v) - Len(t) + 1) : SubSeq(v, i, i + Len(t) - 1) = t

\* The three optional filters; an absent or empty one is not applied.
Filtered(rows, search, strategy, trade_type) ==
    {r \in rows :
        /\ TruthyStr(search) => ilike(r.pair, Val(search))
        /\ TruthyStr(strategy) => ilike(r.strategy, Val(strategy))
        /\ trade_type # None => r.trade_type = Val(trade_type)}

\* The value a row is ordered by, null for a missing one.
SortKey(r, sort_by) ==
    IF sort_by = "pnl" THEN r.pnl ELSE Some(FromInt(r.created_at))

\* Column order of the table: a null sorts after every value.
KeyLess(k1, k2) == k1 # None /\ (k2 = None \/ RatLess(Val(k1), Val(k2)))

\* r1 comes strictly before r2 in the requested order.
Before(r1, r2, sort_by, is_ascending) ==
    IF is_ascending
    THEN KeyLess(SortKey(r1, sort_by), SortKey(r2, sort_by))
    ELSE KeyLess(SortKey(r2, sort_by), SortKey(r1, sort_by))

\* The orders the table may give the rows in: rows with equal keys in any order.
Ordered(rows, sort_by, is_ascending) ==
    LET n == Cardinality(rows)
    IN  {s \in [1..n -> rows] :
            /\ \A i, j \in 1..n : i # j => s[i] # s[j]
            /\ \A i, j \in 1..n :
                  i < j => ~Before(s[j], s[i], sort_by, is_ascending)}

Min(a, b) == IF a < b THEN a ELSE b

\* query.range(start_index, end_index): both ends included, counted from 0
Range(rows, start_index, end_index) ==
    SubSeq(rows, start_index + 1, Min(end_index + 1, Len(rows)))

\* Variant: the last index of the page is start_index + limit.
EndIndex_Inclusive(start_index, limit) == start_index + limit

EndIndex(start_index, limit) == start_index + limit - 1

TotalPages(total_records, limit) == (total_records + limit - 1) \div limit

\* Query(10, ge=1, le=100)
DefaultLimit == 10

ListQuery(search, strategy, trade_type, sort_by, sort_order, page, limit) ==
    [search |-> search, strategy |-> strategy, trade_type |-> trade_type,
     sort_by |-> sort_by, sort_order |-> sort_order, page |-> page,
     limit |-> limit]

get_trades(page, limit, search, strategy, trade_type, sort_by, sort_order, env) ==
    LET q == ListQuery(search, strategy, trade_type, sort_by, sort_order,
                       page, limit)
        matched == Filtered(store, search, strategy, trade_type)
        is_ascending == sort_order = "asc"
        start_index == (page - 1) * limit
        end_index == EndIndex(start_index, limit)
        total_records == Cardinality(matched)
    IN  /\ IF env = "fault"
           THEN resp' = Response("list", "", q, 500, None, env, None)
           ELSE \E rows \in Ordered(matched, sort_by, is_ascending) :
                   resp' = Response("list", "", q, 200,
                              Some([trades |-> Range(rows, start_index, end_index),
                                    total |-> total_records,
                                    page |-> page,
                                    limit |-> limit,
                                    total_pages |-> TotalPages(total_records, limit)]),
                              env, None)
        /\ UNCHANGED <<store, clock>>

\* ------------------------------------------------------------ specification

\* A row the table holds when the service starts: written through the same
\* construction as create_trade's insert, at time 0.
Seed(trade_id, trade) ==
    LET quantity == calculate_quantity(trade.usd_amount, trade.entry_price)
    IN  NewTrade(trade_id, trade, quantity,
                 calculate_pnl(Some(trade.trade_type), Some(trade.entry_price),
                               trade.exit_price, Some(quantity)),
                 0)

\* An open Long position and a closed Short one.
SeedRows ==
    {Seed("t1", [pair |-> "BTC/USDT", entry_price |-> 1, exit_price |-> None,
                 usd_amount |-> 2, pnl |-> None, strategy |-> "DCA",
                 trade_type |-> LONG, notes |-> None]),
     Seed("t2", [pair |-> "ETH/USDT", entry_price |-> 2, exit_price |-> Some(1),
                 usd_amount |-> 2, pnl |-> None, strategy |-> "Swing",
                 trade_type |-> SHORT, notes |-> Some("n")])}

NoRequest == Response("none", "", None, 0, None, "ok", None)

Init ==
    /\ store \in SUBSET SeedRows
    /\ clock = 0
    /\ served = 0
    /\ resp = NoRequest
    /\ inflight = NoInflight

\* The storage behaviours that differ for a request on trade_id.
EnvsFor(trade_id) ==
    IF Matching(store, trade_id) = {} THEN StoreEnvs ELSE {"ok", "fault"}

\* One more request is served.
Serving == served < MaxRequests /\ served' = served + 1 /\ UNCHANGED inflight

Next ==
    \/ \E trade \in CreatePayloads, env \in {"ok", "fault"} :
          Serving /\ create_trade(trade, env)
    \/ \E trade_id \in Ids : \E env \in EnvsFor(trade_id) :
          Serving /\ get_trade(trade_id, env)
    \/ \E trade_id \in Ids, trade_update \in UpdatePayloads :
          \E env \in EnvsFor(trade_id) :
             Serving /\ update_trade(trade_id, trade_update, env)
    \/ \E trade_id \in Ids, env \in {"ok", "fault"} :
          Serving /\ delete_trade(trade_id, env)
    \/ \E env \in {"ok", "fault"} : Serving /\ get_trade_stats(env)
    \/ \E env \in {"ok", "fault"} :
          Serving /\ get_trades(1, DefaultLimit, None, None, None,
                                "created_at", "desc", env)

Spec == Init /\ [][Next]_vars

\* ------------------------------------------- the helper functions on their own

\* Argument tuples for the two helpers, null and degenerate values included.
CalcArgs ==
    [trade_type : {None, Some(LONG), Some(SHORT)},
     entry_price : {None} \cup {Some(v) : v \in {-1, 0, 1, 2}},
     exit_price : {None} \cup {Some(v) : v \in {0, 1, 3}},
     quantity : {None} \cup {Some(q) : q \in {Zero, FromInt(2), FromInt(-2), Rat(1, 2)}},
     usd_amount : {-3, 0, 3}]

InitCalc ==
    /\ store = {}
    /\ clock = 0
    /\ served = 0
    /\ resp \in {Response("args", "", a, 0, None, "ok", None) : a \in CalcArgs}
    /\ inflight = NoInflight

\* calculate_pnl(trade_type, entry_price, exit_price, quantity)
call_calculate_pnl ==
    /\ resp.op = "args"
    /\ resp' = [resp EXCEPT !.op = "calculate_pnl",
                            !.body = calculate_pnl(resp.payload.trade_type,
                                                   resp.payload.entry_price,
                                                   resp.payload.exit_price,
                                                   resp.payload.quantity)]
    /\ UNCHANGED <<store, clock, served, inflight>>

\* calculate_quantity(usd_amount, entry_price), both floats
call_calculate_quantity ==
    /\ resp.op = "args"
    /\ resp.payload.entry_price # None
    /\ resp' = [resp EXCEPT !.op = "calculate_quantity",
                            !.body = Some(calculate_quantity(
                                         resp.payload.usd_amount,
                                         Val(resp.payload.entry_price)))]
    /\ UNCHANGED <<store, clock, served, inflight>>

NextCalc == call_calculate_pnl \/ call_calculate_quantity

SpecCalc == InitCalc /\ [][NextCalc]_vars

\* ------------------------------------------------- statistics over a full table

StatsIds == {"t1", "t2", "t3"}

\* Closed and open positions of both directions: pnl positive, zero, negative, null.
StatsPayloads ==
    [pair : {"BTC/USDT"},
     entry_price : {1},
     exit_price : {None, Some(1), Some(2)},
     usd_amount : {2},
     pnl : {None},
     strategy : {"DCA"},
     trade_type : TradeType,
     notes : {None}]

\* Tables with at most one row per id.
StatsTables ==
    {t \in SUBSET {Seed(i, p) : i \in StatsIds, p \in StatsPayloads} :
        \A r1, r2 \in t : r1.id = r2.id => r1 = r2}

InitStats ==
    /\ store \in StatsTables
    /\ clock = 0
    /\ served = 0
    /\ resp = NoRequest
    /\ inflight = NoInflight

NextStats ==
    \/ \E env \in {"ok", "fault"} : Serving /\ get_trade_stats(env)
    \/ \E trade_id \in StatsIds, env \in {"ok", "fault"} :
          Serving /\ delete_trade(trade_id, env)

SpecStats == InitStats /\ [][NextStats]_vars

\* ------------------------------------------------------- listing a full table

\* A row inserted at time now.
SeedAt(trade_id, trade, now) == [Seed(trade_id, trade) EXCEPT !.created_at = now,
                                                             !.updated_at = now]

\* Four trades: an open one, two with equal pnl and creation time, a losing one.
ListRows ==
    {SeedAt("t1", [pair |-> "BTC/USDT", entry_price |-> 1, exit_price |-> None,
                   usd_amount |-> 2, pnl |-> None, strategy |-> "DCA",
                   trade_type |-> LONG, notes |-> None], 0),
     SeedAt("t2", [pair |-> "ETH/USDT", entry_price |-> 2, exit_price |-> Some(1),
                   usd_amount |-> 2, pnl |-> None, strategy |-> "Swing",
                   trade_type |-> SHORT, notes |-> Some("n")], 1),
     SeedAt("t3", [pair |-> "btc/usd", entry_price |-> 1, exit_price |-> Some(2),
                   usd_amount |-> 1, pnl |-> None, strategy |-> "Weekly dca",
                   trade_type |-> LONG, notes |-> None], 1),
     SeedAt("t4", [pair |-> "BTC/EUR", entry_price |-> 1, exit_price |-> Some(2),
                   usd_amount |-> 2, pnl |-> None, strategy |-> "Swing",
                   trade_type |-> SHORT, notes |-> None], 2)}

\* Any part of the four trades.
InitList ==
    /\ store \in SUBSET ListRows
    /\ clock = 2
    /\ served = 0
    /\ resp = NoRequest
    /\ inflight = NoInflight

\* The default order, and pnl in ascending order.
ListOrders == {<<"created_at", "desc">>, <<"pnl", "asc">>}

\* One listing of the table.
NextList ==
    \E page \in 1..MaxPage, limit \in 1..MaxLimit,
       search \in {None, Some("btc")}, strategy \in {None, Some("dca")},
       trade_type \in {None, Some(SHORT)}, order \in ListOrders,
       env \in {"ok", "fault"} :
          /\ resp = NoRequest
          /\ get_trades(page, limit, search, strategy, trade_type,
                        order[1], order[2], env)
          /\ UNCHANGED <<served, inflight>>

SpecList == InitList /\ [][NextList]_vars

\* ------------------------------------------ two update requests on one trade

Requests == {"A", "B"}

\* The payloads that make update_trade fetch the existing trade.
ConcPayloads == {p \in UpdatePayloads : \E k \in CriticalFields : p[k] # None}

\* A request that has not started; stale records a write by another request
\* between this request's fetch and its own write.
Idle(trade_id) ==
    [pc |-> "idle", id |-> trade_id, payload |-> EmptyPayload,
     update_data |-> <<>>, stale |-> FALSE]

\* Both requests are about to update the same stored trade.
InitConc ==
    /\ store = SeedRows
    /\ clock = 0
    /\ served = 0
    /\ resp = NoRequest
    /\ \E trade_id \in Ids : inflight = [r \in Requests |-> Idle(trade_id)]

\* update_trade up to the write: update_data is built and, from the fetched
\* row, given the recalculated quantity and pnl.
update_fetch(r, trade_update, env) ==
    LET trade_id == inflight[r].id
        now == clock + 1
        update_data == FirstUpdateData(trade_update, now)
    IN  /\ inflight[r].pc = "idle"
        /\ clock' = now
        /\ UNCHANGED store
        /\ IF env = "fault" \/ Matching(store, trade_id) = {}
           THEN /\ resp' = Response("update", trade_id, trade_update,
                                    IF env = "fault" THEN 500 ELSE 404,
                                    None, env, None)
                /\ served' = served + 1
                /\ inflight' = [inflight EXCEPT ![r].pc = "done",
                                                ![r].payload = trade_update]
           ELSE /\ inflight' =
                      [inflight EXCEPT
                          ![r].pc = "fetched",
                          ![r].payload = trade_update,
                          ![r].update_data =
                              Recalculated(update_data, TheRow(store, trade_id))]
                /\ UNCHANGED <<resp, served>>

\* update_trade from the write on: the row takes update_data as it was built.
update_write(r, env) ==
    LET trade_id == inflight[r].id
        rows == Matching(store, trade_id)
        written == {Updated(row, inflight[r].update_data) : row \in rows}
        ok == env # "fault" /\ rows # {}
    IN  /\ inflight[r].pc = "fetched"
        /\ served' = served + 1
        /\ UNCHANGED clock
        /\ store' = IF ok THEN (store \ rows) \cup written ELSE store
        /\ resp' = Response("update", trade_id, inflight[r].payload,
                            IF ok THEN 200 ELSE 500,
                            IF ok THEN Some(CHOOSE w \in written : TRUE) ELSE None,
                            env, None)
        /\ inflight' =
              [q \in Requests |->
                  IF q = r THEN [inflight[q] EXCEPT !.pc = IF ok THEN "written"
                                                          ELSE "done"]
                  ELSE IF ok /\ inflight[q].pc = "fetched"
                  THEN [inflight[q] EXCEPT !.stale = TRUE]
                  ELSE inflight[q]]

NextConc ==
    \/ \E r \in Requests, trade_update \in ConcPayloads, env \in {"ok", "fault"} :
          update_fetch(r, trade_update, env)
    \/ \E r \in Requests, env \in {"ok", "fault"} : update_write(r, env)

SpecConc == InitConc /\ [][NextConc]_vars

\* ------------------------------------------------------------------ claims

Positive(x) == x[1] > 0
Negative(x) == x[1] < 0

\* C1: a well-formed create request on a store that accepts the insert answers
\* 200 with the created trade, whose quantity and pnl are the calculated ones;
\* create answers 500 only when the store fails.
C1_CreateReturnsTrade ==
    resp.op = "create" =>
        /\ resp.env # "fault" =>
              /\ resp.status = 200
              /\ resp.body # None
              /\ Val(resp.body).quantity =
                    calculate_quantity(resp.payload.usd_amount, resp.payload.entry_price)
              /\ Val(resp.body).pnl =
                    calculate_pnl(Some(resp.payload.trade_type),
                                  Some(resp.payload.entry_price),
                                  resp.payload.exit_price,
                                  Some(Val(resp.body).quantity))
        /\ resp.status = 500 => resp.env = "fault"

\* C2: every stored trade has quantity * entry_price = usd_amount when its
\* entry_price is positive, and quantity 0 otherwise, after any sequence of
\* create, update and delete requests.
C2_QuantityFromAmount ==
    \A r \in store :
        IF r.entry_price > 0
        THEN r.quantity[1] * r.entry_price = r.usd_amount * r.quantity[2]
        ELSE r.quantity = Zero

\* An update has changed both sizing inputs of a stored trade.
C2_Witness ==
    /\ resp.op = "update" /\ resp.status = 200
    /\ resp.payload.entry_price # None
    /\ \E r \in store :
          /\ r.id = resp.id
          /\ r.entry_price = 2 /\ r.usd_amount = -2 /\ r.quantity = FromInt(-1)
          /\ r.updated_at > r.created_at

\* C3: a stored trade has a non-null pnl exactly when its entry_price and its
\* exit_price are both present and non-zero.
C3_PnlIffBothPrices ==
    \A r \in store :
        (r.pnl # None) <=>
            (r.entry_price # 0 /\ r.exit_price # None /\ Val(r.exit_price) # 0)

\* C4: calculate_pnl answers null when an argument is null; with all four
\* present and both prices non-zero it answers (exit - entry) * quantity for
\* Long and (entry - exit) * quantity for Short.
C4_PnlContract ==
    resp.op = "calculate_pnl" =>
        LET a == resp.payload
            anyNull == \/ a.trade_type = None \/ a.entry_price = None
                       \/ a.exit_price = None \/ a.quantity = None
        IN  /\ anyNull => resp.body = None
            /\ (~anyNull /\ Val(a.entry_price) # 0 /\ Val(a.exit_price) # 0) =>
                  resp.body =
                     Some(RatMul(Val(a.quantity),
                                 FromInt(IF Val(a.trade_type) = LONG
                                         THEN Val(a.exit_price) - Val(a.entry_price)
                                         ELSE Val(a.entry_price) - Val(a.exit_price))))

\* C5: for a stored trade whose pnl is the calculated, non-null one, a Long has
\* pnl > 0 exactly when exit_price > entry_price and a Short exactly when
\* exit_price < entry_price.
C5_PnlSignFollowsType ==
    \A r \in store :
        (/\ r.pnl # None
         /\ r.pnl = calculate_pnl(Some(r.trade_type), Some(r.entry_price),
                                  r.exit_price, Some(r.quantity))) =>
            IF r.trade_type = LONG
            THEN Positive(Val(r.pnl)) <=> Val(r.exit_price) > r.entry_price
            ELSE Positive(Val(r.pnl)) <=> Val(r.exit_price) < r.entry_price

\* C6: an update whose payload sets no field is answered 400 and leaves the
\* store, updated_at included, as it was.
C6_EmptyUpdateRejected ==
    [][(served' # served /\ resp'.op = "update" /\ resp'.payload = EmptyPayload)
          => (resp'.status = 400 /\ store' = store)]_vars

\* C7: for an id with no stored trade, get_trade and update_trade with a
\* non-empty payload answer 404 while the store is working.
C7_MissingIdIs404 ==
    (/\ resp.op \in {"get", "update"}
     /\ resp.env # "fault"
     /\ Matching(store, resp.id) = {}
     /\ (resp.op = "update" => resp.payload # EmptyPayload))
        => resp.status = 404

UniqueIds == \A r1, r2 \in store : r1.id = r2.id => r1 = r2

\* The settable fields that are not derived.
PlainFields == CryptoTradeUpdateFields \ {"pnl"}

UpdateStep == served' # served /\ resp'.op = "update"

C8_Frame ==
    /\ \A w \in store' : \E r \in store : r.id = w.id
    /\ \A r \in store : \E w \in store' :
          /\ w.id = r.id
          /\ w.created_at = r.created_at
          /\ \A k \in PlainFields : resp'.payload[k] = None => w[k] = r[k]
          /\ r.id # resp'.id => w = r
          /\ (r.id = resp'.id /\ resp'.status = 200) =>
                (w.updated_at >= r.updated_at /\ resp'.body = Some(w))

\* C8: an update keeps every trade's id and created_at and every non-derived
\* field the payload leaves out, a successful one sets updated_at no earlier
\* than it was, and ids are unique in every state.
C8_UpdateFrame ==
    [][UniqueIds /\ UniqueIds' /\ (UpdateStep => C8_Frame)]_vars

\* A successful update of one of two stored trades that left notes out.
C8_Witness ==
    /\ resp.op = "update" /\ resp.status = 200
    /\ resp.payload.exit_price # None /\ resp.payload.notes = None
    /\ Cardinality(store) = 2
    /\ Val(resp.body).notes # None
    /\ Val(resp.body).updated_at > Val(resp.body).created_at

\* C9: the same update applied twice in a row to the same trade leaves every
\* field but updated_at as the first application left it.
C9_Idempotent ==
    (resp.op = "update" /\ resp.status = 200 /\ resp.prior # None) =>
        /\ \A k \in CryptoTradeFields \ {"updated_at"} :
              Val(resp.body)[k] = Val(resp.prior)[k]
        /\ Val(resp.body) \in store

\* The second of two equal updates that set a sizing input.
C9_Witness ==
    /\ resp.op = "update" /\ resp.status = 200 /\ resp.prior # None
    /\ resp.payload.usd_amount # None
    /\ Val(resp.body).updated_at > Val(resp.prior).updated_at

\* The trades with a pnl, which the statistics are about.
Qualifying == {r \in store : r.pnl # None}

C10_Counts(b) ==
    /\ b.total_trades = Cardinality(Qualifying)
    /\ b.winning_trades = Cardinality({r \in Qualifying : Positive(Val(r.pnl))})
    /\ b.losing_trades = Cardinality({r \in Qualifying : Negative(Val(r.pnl))})
    /\ b.winning_trades + b.losing_trades <= b.total_trades

C10_AllZero(b) ==
    /\ b.total_trades = 0 /\ b.winning_trades = 0 /\ b.losing_trades = 0
    /\ b.total_pnl = Zero /\ b.total_invested = Zero /\ b.win_rate = Zero
    /\ b.avg_pnl = Zero /\ b.roi = Zero

\* x is y given to two decimal places: a multiple of 1/100 within 1/200 of y.
TwoDecimalsOf(x, y) ==
    /\ 100 % x[2] = 0
    /\ 200 * Abs(x[1] * y[2] - y[1] * x[2]) <= x[2] * y[2]

\* C10 as stated: the counts are those of the trades with a pnl, win_rate is
\* exactly winning_trades / total_trades * 100, and with no such trade the
\* summary is all zero, answered 200.
C10_StatsExact ==
    (resp.op = "stats" /\ resp.env # "fault") =>
        /\ resp.status = 200
        /\ LET b == Val(resp.body)
           IN  IF Qualifying = {} THEN C10_AllZero(b)
               ELSE /\ C10_Counts(b)
                    /\ b.win_rate[1] * b.total_trades
                          = 100 * b.winning_trades * b.win_rate[2]

\* C10 amended: as stated, with win_rate given to two decimal places.
C10_StatsRounded ==
    (resp.op = "stats" /\ resp.env # "fault") =>
        /\ resp.status = 200
        /\ LET b == Val(resp.body)
           IN  IF Qualifying = {} THEN C10_AllZero(b)
               ELSE /\ C10_Counts(b)
                    /\ TwoDecimalsOf(b.win_rate,
                                     <<100 * b.winning_trades, b.total_trades>>)

\* Statistics over a winning, a losing and a breakeven trade.
C10_Witness ==
    /\ resp.op = "stats" /\ resp.status = 200
    /\ Val(resp.body).total_trades = 3
    /\ Val(resp.body).winning_trades = 1
    /\ Val(resp.body).losing_trades = 1
    /\ Val(resp.body).win_rate = Rat(3333, 100)

\* C11: over the trades with a pnl, roi is total_pnl / total_invested * 100
\* (given to two decimal places) whenever total_invested, the sum of their
\* usd_amount, is different from 0, negative sums included, and roi is 0 when
\* total_invested is 0.
C11_RoiForNonZeroInvested ==
    (resp.op = "stats" /\ resp.status = 200 /\ Qualifying # {}) =>
        LET total_pnl == SumOver(Qualifying, "pnl")
            total_invested == SumOver(Qualifying, "usd_amount")
            roi == Val(resp.body).roi
        IN  IF total_invested = Zero THEN roi = Zero
            ELSE TwoDecimalsOf(roi, RatMul(RatDiv(total_pnl, total_invested),
                                           FromInt(100)))

\* The rows the listing's filters select.
C12_Matched ==
    Filtered(store, resp.payload.search, resp.payload.strategy,
             resp.payload.trade_type)

\* r1 is strictly before r2 in the order the listing asked for.
C12_Before(r1, r2) ==
    Before(r1, r2, resp.payload.sort_by, resp.payload.sort_order = "asc")

\* C12: a listing with page >= 1 and 1 <= limit <= 100 returns the rows at
\* positions (page-1)*limit .. (page-1)*limit + limit - 1 of the filtered,
\* sorted rows, total is the number of rows the filters select whatever page
\* and limit are, and total_pages is ceil(total / limit), 0 for total 0.
C12_Pagination ==
    (resp.op = "list" /\ resp.status = 200) =>
        LET q == resp.payload
            b == Val(resp.body)
            first == (q.page - 1) * q.limit
            n == Len(b.trades)
        IN  /\ b.total = Cardinality(C12_Matched)
            /\ b.total_pages * q.limit >= b.total
            /\ (b.total_pages - 1) * q.limit < b.total
            /\ b.total = 0 => b.total_pages = 0
            /\ n = IF b.total - first < 0 THEN 0 ELSE Min(q.limit, b.total - first)
            /\ \A i \in 1..n :
                  /\ b.trades[i] \in C12_Matched
                  /\ \A j \in 1..n : i # j => b.trades[i] # b.trades[j]
                  /\ Cardinality({r \in C12_Matched : C12_Before(r, b.trades[i])})
                        <= first + i - 1
                  /\ first + i - 1
                        < Cardinality({r \in C12_Matched :
                                         ~C12_Before(b.trades[i], r)})

\* The second, shorter page of a filtered listing of three trades.
C12_Witness ==
    /\ resp.op = "list" /\ resp.status = 200
    /\ resp.payload.search # None
    /\ resp.payload.page = 2 /\ resp.payload.limit = 2
    /\ Val(resp.body).total = 3 /\ Val(resp.body).total_pages = 2
    /\ Len(Val(resp.body).trades) = 1

\* A delete request the store carried out.
C13_DeleteStep == served' # served /\ resp'.op = "delete" /\ resp'.env # "fault"

\* A get_trade request that follows a delete answered 200, on the same id.
C13_GetAfterDelete ==
    /\ resp.op = "delete" /\ resp.status = 200
    /\ served' # served /\ resp'.op = "get" /\ resp'.id = resp.id

\* C13: while the store works, delete_trade answers 200 whether or not the id
\* is stored; afterwards no stored trade has the id, every other trade is as
\* it was, and a get_trade on the id that follows is not answered 200.
C13_DeleteRemoves ==
    [][/\ C13_DeleteStep =>
            /\ resp'.status = 200
            /\ \A r \in store' : r.id # resp'.id
            /\ store' \subseteq store
            /\ \A r \in store : r.id # resp'.id => r \in store'
       /\ C13_GetAfterDelete => resp'.status # 200]_vars

\* A stored trade has been deleted and another one is still stored.
C13_Witness ==
    /\ resp.op = "delete" /\ resp.status = 200
    /\ resp.body = Some("Trade deleted successfully")
    /\ store # {}
    /\ \A r \in store : r.id # resp.id

\* quantity and pnl of every stored trade are the calculated ones for the
\* values stored in the same record.
C14_Derived ==
    \A row \in store :
        /\ row.quantity = calculate_quantity(row.usd_amount, row.entry_price)
        /\ row.pnl = calculate_pnl(Some(row.trade_type), Some(row.entry_price),
                                   row.exit_price, Some(row.quantity))

\* A request has written after another request's write fell between its own
\* fetch and its write.
C14_StaleWrite == \E r \in Requests : inflight[r].pc = "written" /\ inflight[r].stale

\* C14 as stated: with two updates of one trade running concurrently, fetch
\* and write as separate steps, every stored trade has the quantity and pnl
\* calculated from the values stored in that same record, in every state.
C14_DerivedInEveryState == C14_Derived

\* C14 amended: the same, for the states in which no request has written
\* after another request's write fell between its own fetch and its write.
C14_DerivedUnlessStaleWrite == ~C14_StaleWrite => C14_Derived

\* Both requests have changed the trade, one after the other.
C14_Witness ==
    /\ \A r \in Requests : inflight[r].pc = "written" /\ ~inflight[r].stale
    /\ inflight["A"].payload.usd_amount # None
    /\ inflight["B"].payload.entry_price # None
    /\ \E row \in store :
          /\ row.id = inflight["A"].id
          /\ row.usd_amount = -2 /\ row.entry_price = 2
          /\ row.quantity = FromInt(-1)

====
